---- MODULE Spec2Model ----
(***************************************************************************)
(* The focus/edit coordinator of the autocompleter (AutocompleteCore,     *)
(* src/autocompleter/core/core.py) with its collaborators: the debounce   *)
(* threading.Timer, the worker thread of every backend request            *)
(* (query_llm_async.run_llm), the backend client (LLMClient) and the      *)
(* overlay window.                                                        *)
(*                                                                         *)
(* Scheduling.  Focus, text-change and accept callbacks run on the one    *)
(* event-handling thread, so each handler is one atomic action.  Timer    *)
(* threads and request threads run beside it and are split at the points  *)
(* where they read the coordinator's fields.                              *)
(*                                                                         *)
(* Time.  The clock is discrete (one tick is half of the debounce delay)  *)
(* and is kept relative to the present: time.time() reads 0, a timestamp  *)
(* taken k ticks ago is -k and a deadline k ticks ahead is k.  The code   *)
(* only ever compares differences of times with the debounce delay, so    *)
(* timestamps saturate at -LLM_UPDATE_DELAY and deadlines at 0.  A Timer  *)
(* whose wait is over wakes, and a new thread starts, before the clock    *)
(* advances, in any order with the handlers of the events that arrive in  *)
(* the same tick; the callback of a woken Timer and the backend call take *)
(* any amount of time.                                                    *)
(*                                                                         *)
(* History.  The variables burst and last and some fields of the thread   *)
(* records only observe the program.  Each specification (Spec,           *)
(* SpecIssue, SpecEvents, SpecLive) runs the same program and records the *)
(* kinds of history named in its initial state.                           *)
(***************************************************************************)
EXTENDS Integers, Sequences, FiniteSets, Bags, TLC

\* ---------------------------------------------------------------- bounds
MaxLen == 1
MaxRequests == 2
MaxTimers == 2
MaxBurst == 2

\* settings.LLM_UPDATE_DELAY (0.5 s), in clock ticks of 0.25 s
LLM_UPDATE_DELAY == 2

None == "None"

\* time.time(): the present
Now == 0

\* ------------------------------------------------- the desktop's controls
\* Two text entries, a password entry and a push button.
Fields == {"A", "B", "P", "N"}

\* Accessible.getRoleName() of each control (AT-SPI role names).
RoleName(f) ==
  CASE f = "A" -> <<"t", "e", "x", "t">>
    [] f = "B" -> <<"t", "e", "x", "t">>
    [] f = "P" -> <<"p", "a", "s", "s", "w", "o", "r", "d", " ", "t", "e", "x", "t">>
    [] f = "N" -> <<"p", "u", "s", "h", " ", "b", "u", "t", "t", "o", "n">>

\* The controls that implement the Text / EditableText interfaces.
HasText == {"A", "B", "P"}

\* Accessible.getState(): STATE_EDITABLE and STATE_PROTECTED.
StateEditable(f) == f \in {"A", "B", "P"}
StateProtected(f) == f = "P"

\* Component.getExtents(DESKTOP_COORDS) of each control: <<x, y, w, h>>.
Extents(f) ==
  CASE f = "A" -> <<10, 10, 50, 20>>
    [] f = "B" -> <<10, 40, 50, 20>>
    [] f = "P" -> <<10, 70, 50, 20>>
    [] f = "N" -> <<10, 100, 50, 20>>

\* ------------------------------------------------------------ pure helpers
\* str.lower() on the letters that occur.
LowerChar(c) ==
  CASE c = "T" -> "t"
    [] c = "E" -> "e"
    [] c = "P" -> "p"
    [] OTHER -> c

Lower(s) == [i \in DOMAIN s |-> LowerChar(s[i])]

\* `sub in s` for strings.
Contains(sub, s) ==
  \E i \in 1..(Len(s) - Len(sub) + 1) : SubSeq(s, i, i + Len(sub) - 1) = sub

\* str.startswith
StartsWith(s, prefix) ==
  Len(prefix) <= Len(s) /\ SubSeq(s, 1, Len(prefix)) = prefix

IsSpace(c) == c = " "

RECURSIVE LStrip(_)
LStrip(s) == IF s # <<>> /\ IsSpace(Head(s)) THEN LStrip(Tail(s)) ELSE s

RECURSIVE RStrip(_)
RStrip(s) ==
  IF s # <<>> /\ IsSpace(s[Len(s)]) THEN RStrip(SubSeq(s, 1, Len(s) - 1)) ELSE s

\* str.strip()
Strip(s) == LStrip(RStrip(s))

\* The core's test for "an editable text role" (on_focus_event).
IsTextRole(role_name) ==
  Contains(<<"e", "d", "i", "t">>, role_name) \/ Contains(<<"t", "e", "x", "t">>, role_name)

\* hooking_linux.is_editable_text
is_editable_text(f) ==
  IF ~StateEditable(f) THEN FALSE
  ELSE IF StateProtected(f) THEN FALSE
  ELSE TRUE

\* The adapter's policy for a focus that must not get suggestions
\* (hooking_linux.on_focus_changed): a password role or not editable text.
Excluded(f) ==
  Contains(<<"p", "a", "s", "s", "w", "o", "r", "d">>, Lower(RoleName(f)))
    \/ ~is_editable_text(f)

\* ------------------------------------------------------------------ state
VARIABLES
  current_focus,          \* self.current_focus: the tracked control or None
  current_text_cache,     \* self.current_text_cache
  last_text_update_time,  \* self.last_text_update_time
  timers,                 \* the Timer threads that are alive (a bag of records);
                          \* self._idle_timer is the one with idle = TRUE, and
                          \* None or a Timer that has ended when there is none
  requests,               \* the run_llm threads that are alive (a bag of records)
  overlay,                \* the overlay window: visible, label
  fieldText,              \* the real content of each control with a text interface
  burst,                  \* history: the text-change events since the debounce last rested
  last,                   \* history: what the step just taken did (accept click,
                          \* focus lost, end of a request), else Other
  history                 \* the kinds of history a specification records

vars == <<current_focus, current_text_cache, last_text_update_time,
          timers, requests, overlay, fieldText, burst, last, history>>

\* QLabel("No suggestion")
NoSuggestion == <<"No suggestion">>

\* `last` after any other step
Other == [op |-> "other"]

NoBurst == [len |-> 0, reqs |-> 0, text |-> <<>>, intact |-> FALSE]

\* The kinds of history.  "old": which threads predate the last change of
\* focus; "burst": the variable burst; "last": accept clicks, focus lost and
\* ends of requests in the variable last; "issue": what a request was created
\* with and by whom; "events": the events a handler drops or fails on, in
\* the variable last; "rest": what ends the wait for a debounce timer (a
\* request issued by _check_and_query_llm, a text change on the tracked
\* control, a focus event that starts or ends a session), in the variable
\* last; "order": which request is the most recently issued one and what
\* text a request sent to the backend; "origin": which control was tracked
\* when a request read the text it sent, and so which control's text the
\* suggestion on the overlay was computed from.  History never influences
\* the program.
Kinds == {"old", "burst", "last", "issue", "events", "rest", "order", "origin"}

Keeps(kind) == kind \in history

\* `last` after a step: rec if that kind of history is recorded
Note(kind, rec) == IF Keeps(kind) THEN rec ELSE Other

\* `last` after an accept click, which two kinds of history record
NoteAccept(rec) == IF Keeps("last") \/ Keeps("origin") THEN rec ELSE Other

\* AutocompleteCore.__init__, Overlay.__init__ (window hidden by default)
Start(kinds) ==
  /\ current_focus = None
  /\ current_text_cache = <<>>
  /\ last_text_update_time = -LLM_UPDATE_DELAY
  /\ timers = EmptyBag
  /\ requests = EmptyBag
  /\ overlay = [visible |-> FALSE, label |-> NoSuggestion, origin |-> None]
  /\ fieldText = [f \in HasText |-> IF f = "A" THEN <<>> ELSE <<"h">>]
  /\ burst = NoBurst
  /\ last = Other
  /\ history = kinds

Init == Start({"old", "burst", "last"})

\* ------------------------------------------------------------ the adapter
\* _get_full_text: queryText().getText(0, -1), "" when the adapter raises
\* (no Text interface, or the call fails).  `content` is the control's text
\* at the moment of the read.
get_full_text(accessible_obj, content, fails) ==
  IF accessible_obj \notin HasText \/ fails THEN <<>> ELSE content

\* _get_bounding_box: the control's extents, or the fallback box when the
\* adapter raises (there is no control to ask).
get_bounding_box(accessible_obj) ==
  IF accessible_obj \notin Fields THEN <<0, 0, 50, 20>>
  ELSE Extents(accessible_obj)

\* _compute_new_text: both branches return the suggestion.
compute_new_text(current_text, suggestion) ==
  IF StartsWith(suggestion, current_text) THEN suggestion ELSE suggestion

\* ------------------------------------------------------------ the overlay
\* OverlayWindow.show_suggestion: set the label, move to (x, y - height),
\* show.  Where the window sits is not part of the state.
show_suggestion(ov, text, x, y) ==
  [ov EXCEPT !.visible = TRUE, !.label = text]

\* Overlay.hide
hide(ov) == [ov EXCEPT !.visible = FALSE]

\* ------------------------------------------------------------ the backend
\* What the HTTP endpoint can answer: a JSON object with a completion, or a
\* failure of the request, a body that is not JSON, or JSON of another shape.
Completions == {<<" ">>, <<"h", " ">>}

Responses ==
  {[kind |-> "ok", completion |-> c] : c \in Completions}
    \cup {[kind |-> k] : k \in {"RequestException", "AttributeError"}}

\* LLMClient.get_suggestion: the stripped completion; "" when the request
\* fails (RequestException, ValueError); any other exception propagates.
get_suggestion(resp) ==
  CASE resp.kind = "ok" -> [raised |-> FALSE, value |-> Strip(resp.completion)]
    [] resp.kind \in {"RequestException", "ValueError"} -> [raised |-> FALSE, value |-> <<>>]
    [] OTHER -> [raised |-> TRUE, value |-> <<>>]

\* ------------------------------------------------------- helpers
\* The bag of threads without one thread r / with r replaced by q
Remove(reqs, r) == reqs (-) SetToBag({r})

Replace(reqs, r, q) == (reqs (-) SetToBag({r})) (+) SetToBag({q})

Min(a, b) == IF a <= b THEN a ELSE b

\* history: the threads alive when the tracked control changes from `from`
\* to `to` were started for a control that is no longer the tracked one
\* (old); the "order" history also counts a focus-gained event on the
\* tracked control itself, which starts a new session
MarkOldT(tms, from, to) ==
  BagOfAll(LAMBDA t : [t EXCEPT !.old = @ \/ (Keeps("old") /\ from # to)], tms)

MarkOldR(reqs, from, to) ==
  BagOfAll(LAMBDA r : [r EXCEPT !.old = @ \/ (Keeps("old") /\ from # to)
                                          \/ (Keeps("order") /\ (from # to \/ to # None))],
           reqs)

\* ------------------------------------------------------- the coordinator
\* A query_llm_async that makes the backend call itself and returns when it
\* is over.
query_llm_async_inline(focus, cache, by, reqs) == reqs

\* query_llm_async, seen from its caller: nothing without a tracked control,
\* else one more run_llm thread (it has not read anything yet).  `cache` is
\* self.current_text_cache at the call; the thread is not given it, the
\* record keeps it as history (text) until the thread has made its own read,
\* with the caller (by: "focus" for on_focus_event, "timer" for
\* _check_and_query_llm).  More history: newest marks the most recently
\* issued request; sent and src are the text the thread has sent to the
\* backend and the control that was tracked when it read it; stale says that
\* the newest request of the same session has sent another text since.
query_llm_async(focus, cache, by, reqs) ==
  IF focus = None THEN reqs
  ELSE BagOfAll(LAMBDA q : [q EXCEPT !.newest = FALSE], reqs)
         (+) SetToBag({[st |-> "spawned", old |-> FALSE,
                        text |-> IF Keeps("issue") THEN cache ELSE <<>>,
                        by |-> IF Keeps("issue") THEN by ELSE None,
                        newest |-> Keeps("order"), stale |-> FALSE,
                        sent |-> <<>>, src |-> None]})

\* The first statement of run_llm in thread r: it evaluates
\* self.current_text_cache (line 149 of core.py) for the backend call.
run_llm_start(r) ==
  LET read == current_text_cache
      supersedes(q) == /\ Keeps("order") /\ r.newest /\ ~r.old
                       /\ q.st = "inflight" /\ ~q.old /\ q.sent # read
  IN
  BagOfAll(LAMBDA q : [q EXCEPT !.stale = @ \/ supersedes(q)], Remove(requests, r))
    (+) SetToBag({[r EXCEPT !.st = "inflight", !.text = <<>>, !.by = None,
                            !.sent = IF Keeps("order") THEN read ELSE <<>>,
                            !.src = IF Keeps("origin") THEN current_focus ELSE None]})

\* A focus-lost test that takes any control for the tracked one.
LosesTracked_any(focus, source) == TRUE

\* Line 68 of core.py: the control losing focus is the tracked one.
LosesTracked(focus, source) == focus = source

\* A text-change test that takes any control for the tracked one.
Tracks_any(focus, source) == TRUE

\* Line 86 of core.py: a session is live and the event is from its control.
Tracks(focus, source) == focus # None /\ source = focus

\* on_focus_event.  roleFails: getRoleName() raises; textFails: queryText()
\* or getText() raises.  Everything is inside try/except Exception.
on_focus_event(detail1, source, roleFails, textFails) ==
  LET is_focus_gained == detail1 = 1
      role_name == IF source # None THEN Lower(RoleName(source)) ELSE <<>>
      content == IF source \in HasText THEN fieldText[source] ELSE <<>>
  IN
  /\ UNCHANGED last_text_update_time
  /\ IF is_focus_gained /\ source # None /\ roleFails
       THEN \* the exception is printed and swallowed
            /\ UNCHANGED <<current_focus, current_text_cache, requests, overlay,
                           timers, burst>>
       ELSE IF is_focus_gained /\ IsTextRole(role_name)
       THEN /\ current_focus' = source
            /\ current_text_cache' = get_full_text(source, content, textFails)
            /\ requests' = query_llm_async(source,
                                            get_full_text(source, content, textFails),
                                            "focus",
                                            MarkOldR(requests, current_focus, source))
            /\ timers' = MarkOldT(timers, current_focus, source)
            /\ burst' = NoBurst
            /\ UNCHANGED overlay
       ELSE IF is_focus_gained
       THEN /\ current_focus' = None
            /\ overlay' = hide(overlay)
            /\ requests' = MarkOldR(requests, current_focus, None)
            /\ timers' = MarkOldT(timers, current_focus, None)
            /\ burst' = NoBurst
            /\ UNCHANGED current_text_cache
       ELSE IF LosesTracked(current_focus, source)
       THEN /\ current_focus' = None
            /\ current_text_cache' = <<>>
            /\ overlay' = hide(overlay)
            /\ requests' = MarkOldR(requests, current_focus, None)
            /\ timers' = MarkOldT(timers, current_focus, None)
            /\ burst' = NoBurst
       ELSE UNCHANGED <<current_focus, current_text_cache, requests, overlay,
                        timers, burst>>
  /\ last' = IF Keeps("rest")
               THEN IF \/ current_focus' # current_focus
                       \/ BagCardinality(requests') > BagCardinality(requests)
                      THEN [op |-> "moved"] ELSE Other
               ELSE IF is_focus_gained /\ (roleFails \/ textFails)
               THEN Note("events", [op |-> "gained", raised |-> TRUE])
               ELSE IF is_focus_gained /\ IsTextRole(role_name)
               THEN Note("issue", [op |-> "gained", raised |-> FALSE])
               ELSE IF is_focus_gained THEN Other
               ELSE IF current_focus = source THEN Note("last", [op |-> "lost"])
               ELSE Note("events", [op |-> "lost elsewhere"])

\* A cancel() that stops nothing.
Cancel_none(tms) == tms

\* self._idle_timer.cancel(): a thread still waiting ends without calling
\* its function; one that is past its wait is not stopped.
Cancel(tms) ==
  [t \in {u \in BagToSet(tms) : ~(u.idle /\ u.st = "waiting")} |-> tms[t]]

\* self._idle_timer = threading.Timer(self.update_delay,
\* self._check_and_query_llm); self._idle_timer.start()
StartTimer(tms, t) ==
  BagOfAll(LAMBDA u : [u EXCEPT !.idle = FALSE], tms)
    (+) SetToBag({[deadline |-> t + LLM_UPDATE_DELAY, st |-> "waiting",
                   old |-> FALSE, idle |-> TRUE]})

\* on_text_changed_event.  `content` is the control's text when the handler
\* reads it.
on_text_changed_event(source, content, textFails) ==
  LET read == get_full_text(source, content, textFails)
      kept == Cancel(timers)
      continues == /\ burst.intact
                   /\ Now - last_text_update_time < LLM_UPDATE_DELAY
  IN
  /\ UNCHANGED <<current_focus, overlay, requests>>
  /\ IF Tracks(current_focus, source)
       THEN /\ current_text_cache' = read
            /\ last_text_update_time' = Now
            /\ timers' = StartTimer(kept, Now)
            /\ burst' = IF ~Keeps("burst") THEN NoBurst
                         ELSE [len |-> IF continues THEN Min(burst.len + 1, MaxBurst) ELSE 1,
                               reqs |-> IF continues THEN burst.reqs ELSE 0,
                               text |-> IF textFails THEN <<>> ELSE content,
                               intact |-> TRUE]
       ELSE UNCHANGED <<current_text_cache, last_text_update_time, timers, burst>>
  /\ last' = IF current_focus # None /\ source = current_focus
               THEN Note("rest", [op |-> "edit"])
               ELSE Note("events", [op |-> "text elsewhere"])

\* A _set_text_contents that reports success whatever the adapter did.
set_text_contents_blind(accessible_obj, fails) == TRUE

\* _set_text_contents: True unless the adapter raises (no EditableText
\* interface, or setTextContents fails).
set_text_contents(accessible_obj, fails) ==
  accessible_obj \in HasText /\ ~fails

\* A session test that never finds the session missing.
NoSession_never(focus) == FALSE

\* Line 108 of core.py: `if not self.current_focus`
NoSession(focus) == focus = None

\* accept_suggestion.  writeFails: the direct write raises.
accept_suggestion(suggestion, writeFails) ==
  LET new_full_text == compute_new_text(current_text_cache, suggestion)
      \* what setTextContents does to the control / what the code is told
      wrote == current_focus \in HasText /\ ~writeFails
      direct == set_text_contents(current_focus, writeFails)
  IN
  IF NoSession(current_focus)
    THEN /\ UNCHANGED <<current_text_cache, fieldText, burst>>
         /\ last' = NoteAccept([op |-> "accept", live |-> FALSE])
    ELSE IF direct
    THEN /\ fieldText' = IF wrote THEN [fieldText EXCEPT ![current_focus] = new_full_text]
                         ELSE fieldText
         /\ current_text_cache' = new_full_text
         /\ burst' = NoBurst
         /\ last' = NoteAccept([op |-> "accept", live |-> TRUE,
                                   merged |-> new_full_text,
                                   wrote |-> wrote,
                                   direct |-> TRUE, pasted |-> None])
    ELSE \* _clipboard_paste(suggestion)
         /\ UNCHANGED <<current_text_cache, fieldText, burst>>
         /\ last' = NoteAccept([op |-> "accept", live |-> TRUE,
                                   merged |-> new_full_text,
                                   wrote |-> wrote,
                                   direct |-> FALSE, pasted |-> suggestion])

\* OverlayWindow._handle_accept_clicked with on_accept bound to
\* AutocompleteCore.accept_suggestion: pass the label text, then hide.
handle_accept_clicked(writeFails) ==
  /\ accept_suggestion(overlay.label, writeFails)
  /\ overlay' = hide(overlay)
  /\ UNCHANGED <<current_focus, last_text_update_time, timers, requests>>

\* An idle test that wants more than update_delay.
IdleEnough_strict(elapsed) == elapsed > LLM_UPDATE_DELAY

\* Line 131 of core.py: enough idle time since the last text update.
IdleEnough(elapsed) == elapsed >= LLM_UPDATE_DELAY

\* _check_and_query_llm, run by the Timer thread t once it is past its wait.
check_and_query_llm(t) ==
  LET elapsed == Now - last_text_update_time
      after == IF IdleEnough(elapsed)
                 THEN query_llm_async(current_focus, current_text_cache, "timer", requests)
                 ELSE requests
      issued == BagCardinality(after) > BagCardinality(requests)
  IN
  /\ requests' = after
  /\ timers' = Remove(timers, t)
  /\ last' = IF issued THEN Note("rest", [op |-> "issued"]) ELSE Other
  /\ burst' = IF issued /\ burst.intact
                THEN [burst EXCEPT !.reqs = Min(@ + 1, MaxBurst)]
                ELSE burst
  /\ UNCHANGED <<current_focus, current_text_cache, last_text_update_time, overlay>>

\* A run_llm whose except branch leaves the overlay as it is.
overlay_after_keeps(ov, got, focus) ==
  LET bbox == get_bounding_box(focus) IN
  IF ~got.raised /\ got.value # <<>>
    THEN show_suggestion(ov, got.value, bbox[1], bbox[2] + bbox[4])
    ELSE IF got.raised THEN ov ELSE hide(ov)

\* What run_llm does with the backend's answer: show below the control it
\* reads from self.current_focus now, or hide (empty suggestion, or any
\* exception, which is printed).
overlay_after(ov, got, focus) ==
  LET bbox == get_bounding_box(focus) IN
  IF ~got.raised /\ got.value # <<>>
    THEN show_suggestion(ov, got.value, bbox[1], bbox[2] + bbox[4])
    ELSE hide(ov)

\* history: the end of a request whose backend call gave `got`
Completed(got) ==
  [op |-> "complete",
   outcome |-> IF got.raised THEN "raised"
               ELSE IF got.value = <<>> THEN "empty" ELSE "suggestion",
   visible |-> overlay.visible,
   before |-> <<current_focus, current_text_cache,
                last_text_update_time, timers>>]

\* A run_llm that ends the session when the backend gives no suggestion.
run_llm_complete_resets(r, resp) ==
  LET got == get_suggestion(resp)
      keeps == ~got.raised /\ got.value # <<>>
  IN
  /\ overlay' = overlay_after(overlay, got, current_focus)
  /\ requests' = Remove(requests, r)
  /\ last' = Note("last", Completed(got))
  /\ current_focus' = IF keeps THEN current_focus ELSE None
  /\ current_text_cache' = IF keeps THEN current_text_cache ELSE <<>>
  /\ UNCHANGED <<last_text_update_time, timers, burst>>

\* run_llm from the backend's answer on.
run_llm_complete(r, resp) ==
  LET got == get_suggestion(resp)
      after == overlay_after(overlay, got, current_focus)
  IN
  /\ overlay' = IF ~got.raised /\ got.value # <<>>
                  THEN [after EXCEPT !.origin = r.src] ELSE after
  /\ requests' = Remove(requests, r)
  /\ last' = Note("last", Completed(got))
  /\ UNCHANGED <<current_focus, current_text_cache, last_text_update_time,
                 timers, burst>>

\* ---------------------------------------------------------------- actions
\* A focus notification from the accessibility bus.
FocusEvent ==
  \E detail1 \in {0, 1}, source \in Fields, roleFails, textFails \in BOOLEAN :
    /\ detail1 = 0 => ~roleFails /\ ~textFails
    /\ (roleFails \/ source \notin HasText) => ~textFails
    /\ on_focus_event(detail1, source, roleFails, textFails)
    /\ BagCardinality(requests') <= MaxRequests
    /\ UNCHANGED <<fieldText, history>>

\* The text the user can make of `t` with one insertion or deletion.
Edits(t) ==
  {Append(t, "h") : x \in {1} \cap (IF Len(t) < MaxLen THEN {1} ELSE {})}
    \cup {SubSeq(t, 1, Len(t) - 1) : x \in {1} \cap (IF Len(t) > 0 THEN {1} ELSE {})}

\* The user edits the text entry A (focused or not: its content can also
\* be changed from elsewhere) and the text-changed notification arrives.
TextChangedEvent ==
  \E source \in {"A"}, textFails \in BOOLEAN :
    \E t \in Edits(fieldText[source]) :
      /\ fieldText' = [fieldText EXCEPT ![source] = t]
      /\ on_text_changed_event(source, t, textFails)
      /\ BagCardinality(timers') <= MaxTimers
      /\ UNCHANGED history

\* The user clicks Accept on the visible overlay.
AcceptClicked ==
  \E writeFails \in BOOLEAN :
    /\ overlay.visible
    /\ handle_accept_clicked(writeFails)
    /\ UNCHANGED history

\* Timer.run: the wait is over and the timer was not cancelled.
TimerFire ==
  \E t \in BagToSet(timers) :
    /\ t.st = "waiting"
    /\ Now >= t.deadline
    /\ timers' = Replace(timers, t, [t EXCEPT !.st = "running"])
    /\ last' = Other
    /\ UNCHANGED <<current_focus, current_text_cache, last_text_update_time,
                   requests, overlay, fieldText, burst, history>>

\* Timer.run: self.function()
TimerCallback ==
  \E t \in BagToSet(timers) :
    /\ t.st = "running"
    /\ check_and_query_llm(t)
    /\ BagCardinality(requests') <= MaxRequests
    /\ UNCHANGED <<fieldText, history>>

\* run_llm evaluates self.current_text_cache and calls the backend with it.
RunLlmStart ==
  \E r \in BagToSet(requests) :
    /\ r.st = "spawned"
    /\ requests' = run_llm_start(r)
    /\ last' = Other
    /\ UNCHANGED <<current_focus, current_text_cache, last_text_update_time,
                   timers, overlay, fieldText, burst, history>>

\* The backend answers and run_llm finishes.
RunLlmComplete ==
  \E r \in BagToSet(requests), resp \in Responses :
    /\ r.st = "inflight"
    /\ run_llm_complete(r, resp)
    /\ UNCHANGED <<fieldText, history>>

\* A Timer whose wait is over, a thread that was just started
Ready ==
  \/ \E t \in BagToSet(timers) : t.st = "waiting" /\ Now >= t.deadline
  \/ \E r \in BagToSet(requests) : r.st = "spawned"

Max(a, b) == IF a >= b THEN a ELSE b

\* One tick of the clock: every time kept moves one tick into the past.
Tick ==
  /\ ~Ready
  /\ last_text_update_time' = Max(last_text_update_time - 1, -LLM_UPDATE_DELAY)
  /\ timers' = BagOfAll(LAMBDA t : [t EXCEPT !.deadline = Max(@ - 1, 0)], timers)
  /\ last' = Other
  /\ UNCHANGED <<current_focus, current_text_cache, requests,
                 overlay, fieldText, burst, history>>

Next ==
  \/ FocusEvent
  \/ TextChangedEvent
  \/ AcceptClicked
  \/ TimerFire
  \/ TimerCallback
  \/ RunLlmStart
  \/ RunLlmComplete
  \/ Tick

Spec == Init /\ [][Next]_vars

\* The same program, recording what each request was created with and by whom
SpecIssue == Start({"issue"}) /\ [][Next]_vars

\* The same program, recording the events a handler drops or fails on
SpecEvents == Start({"events"}) /\ [][Next]_vars

\* The same program, recording the order of the requests and the text each
\* one sent
SpecOrder == Start({"order"}) /\ [][Next]_vars

\* The same program, recording which control's text each suggestion was
\* computed from
SpecOrigin == Start({"origin"}) /\ [][Next]_vars

\* The same program with its threads scheduled: the clock goes on (time does
\* not stop while events keep arriving), a Timer whose wait is over wakes up
\* and calls its function, a started thread runs, and the backend answers or
\* fails (requests.post has a timeout).  Events are under no obligation.
Fairness ==
  /\ WF_vars(Tick)
  /\ WF_vars(TimerFire)
  /\ WF_vars(TimerCallback)
  /\ WF_vars(RunLlmStart)
  /\ WF_vars(RunLlmComplete)

SpecLive == Start({"old", "rest"}) /\ [][Next]_vars /\ Fairness

\* ------------------------------------------------------------ properties
\* The steps the properties are about.
\* the request thread r ends in this step
Completes(r) == r.st = "inflight" /\ requests' = Remove(requests, r)

\* ... and it put a suggestion on the overlay
Shows == last'.op = "complete" /\ last'.outcome = "suggestion" /\ overlay'.visible

\* the Timer thread t runs its callback in this step
CallbackOf(t) == t.st = "running" /\ timers' = Remove(timers, t)

\* ... and a run_llm thread was started by it
Issues == BagCardinality(requests') > BagCardinality(requests)

\* C1: a request that was issued while another control was the tracked one
\* shows nothing when it completes while a text entry is tracked.
C1_StaleResultNotShown ==
  [][\A r \in BagToSet(requests) :
       (Completes(r) /\ r.old /\ current_focus \in {"A", "B"}) => ~Shows]_vars

\* C2: once a burst of at least two text changes of the tracked control has
\* quiesced (every Timer has ended), exactly one request was issued for it,
\* and the text a request reads is the one read at the last event.
C2_OneRequestPerBurst ==
  (burst.intact /\ burst.len >= 2 /\ timers = EmptyBag)
    => (burst.reqs = 1 /\ current_text_cache = burst.text)

\* C3: a request that completes while no control is tracked shows nothing.
C3_NoShowWithoutSession ==
  [][\A r \in BagToSet(requests) :
       (Completes(r) /\ current_focus = None) => ~Shows]_vars

\* C4: right after focus-lost on the tracked control the cache is empty and
\* no Timer is left waiting.
C4_FocusLostCancelsTimer ==
  last.op = "lost"
    => (current_text_cache = <<>>
        /\ \A t \in BagToSet(timers) : t.st # "waiting")

\* C5: a password, excluded or non-text control is never the tracked one.
C5_ExcludedNeverTracked ==
  current_focus # None => ~Excluded(current_focus)

\* C6: after an accept click handled while a control is tracked, either the
\* direct write succeeded and the control's text and the cache are the merged
\* text, or the fallback was called with the merged text; the overlay is
\* hidden.
C6_AcceptOutcome ==
  (last.op = "accept" /\ last.live)
    => /\ ~overlay.visible
       /\ \/ /\ last.direct
             /\ fieldText[current_focus] = last.merged
             /\ current_text_cache = last.merged
          \/ /\ ~last.direct
             /\ last.pasted = last.merged

C6_Witness ==
  /\ last.op = "accept" /\ last.live /\ last.direct
  /\ fieldText[current_focus] = <<"h">>

\* C7: the cache is empty whenever no control is tracked.
C7_CacheOnlyWhenTracked ==
  current_focus = None => current_text_cache = <<>>

\* C8: when a request ends with a backend failure or an empty suggestion, the
\* overlay is hidden and the session state is what it was before.
C8_FailureHidesOverlay ==
  (last.op = "complete" /\ last.outcome # "suggestion")
    => /\ ~overlay.visible
       /\ last.before = <<current_focus, current_text_cache,
                          last_text_update_time, timers>>

C8_Witness ==
  /\ last.op = "complete" /\ last.outcome = "raised" /\ last.visible
  /\ current_focus # None

\* C9: the callback of a Timer that a later text change has replaced starts
\* no request.
C9_SupersededTimerSilent ==
  [][\A t \in BagToSet(timers) :
       (CallbackOf(t) /\ ~t.idle) => ~Issues]_vars

\* C10: the callback of a Timer armed by a text change of A starts no request
\* once B is the tracked control (Timers are armed by the edits of A only).
C10_MootAfterFocusChange ==
  [][\A t \in BagToSet(timers) :
       (CallbackOf(t) /\ t.old /\ current_focus = "B") => ~Issues]_vars

\* The step in which the run_llm thread r reads self.current_text_cache.
Starts(r) ==
  /\ r.st = "spawned"
  /\ requests' = run_llm_start(r)

\* C11: the text a request sends to the backend is the cached text that was
\* current when query_llm_async was called for it.
C11_TextCapturedAtCall ==
  [][\A r \in BagToSet(requests) :
       Starts(r) => current_text_cache = r.text]_vars

\* The request a focus-gained event on a text control has just created.
CreatedByFocus(r) ==
  /\ r.st = "spawned"
  /\ r.by = "focus"
  /\ requests' = requests (+) SetToBag({r})

\* C12: focus gained on an editable text control replaces the session, sets
\* the cached text to the text read and issues exactly one request at once,
\* and that request goes out with the freshly read text.
C12_FocusGainedIssuesFresh ==
  [][/\ last'.op = "gained" =>
          /\ current_focus' \in HasText
          /\ current_text_cache' \in {fieldText'[current_focus'], <<>>}
          /\ \E r \in BagToSet(requests') :
                CreatedByFocus(r) /\ r.text = current_text_cache'
     /\ \A r \in BagToSet(requests) :
          (Starts(r) /\ r.by = "focus") => current_text_cache = r.text]_vars

\* C13: when the adapter raises during the classification or the text read
\* of a focus-gained event, the control counts as non-editable: afterwards no
\* session is live, the overlay is hidden and no request was issued.
C13_AdapterFailureIsNonEditable ==
  [][(last'.op = "gained" /\ last'.raised) =>
       /\ current_focus' = None
       /\ ~overlay'.visible
       /\ ~Issues]_vars

\* The debounce timer armed by the last text change of the live session is
\* waiting.
Armed ==
  /\ current_focus # None
  /\ \E t \in BagToSet(timers) : t.st = "waiting" /\ t.idle /\ ~t.old

\* The wait is over: _check_and_query_llm has issued a request, or the user
\* has edited again, or a focus event has started or ended a session.
Rests == last.op \in {"issued", "edit", "moved"}

\* C14: once the last text change of a burst has armed the timer, a request
\* is eventually issued, unless the focus moves or the user edits again.
C14_BurstEndsInRequest == (Armed /\ ~Rests) ~> Rests

C14_Witness == last.op = "issued" /\ current_focus = "A" /\ timers = EmptyBag

\* The Timers on which cancel() has not been called
NotCancelled == [t \in {u \in BagToSet(timers) : u.idle} |-> timers[t]]

\* C15: at most one debounce timer is pending (armed and not cancelled), a
\* text change cancels the previous timer before it arms the next, and the
\* deadline of the pending timer comes from the most recent edit alone.
C15_OnePendingTimer ==
  /\ BagCardinality(NotCancelled) <= 1
  /\ \A t \in BagToSet(timers) :
       t.st = "waiting" =>
         /\ t.idle
         /\ t.deadline = last_text_update_time + LLM_UPDATE_DELAY

C15_Witness ==
  /\ burst.len = 2
  /\ \E t \in BagToSet(timers) : t.st = "waiting" /\ t.deadline = LLM_UPDATE_DELAY
  /\ \E t \in BagToSet(timers) : t.st = "running" /\ ~t.idle

\* C16: a text-change event does nothing unless a session is live and the
\* event comes from its control: the tracked control, the cached text, the
\* timestamp and the timers stay as they are and no request is issued.
C16_TextElsewhereIgnored ==
  [][last'.op = "text elsewhere" =>
       /\ UNCHANGED <<current_focus, current_text_cache,
                      last_text_update_time, timers>>
       /\ requests' = requests]_vars

C16_Witness ==
  /\ last.op = "text elsewhere"
  /\ current_focus = "B"
  /\ \E t \in BagToSet(timers) : t.st = "waiting"

\* C17: a focus-lost event for a control that is not the tracked one does
\* nothing: the tracked control, the cached text, the timers and the overlay
\* stay as they are.
C17_FocusLostElsewhereIgnored ==
  [][last'.op = "lost elsewhere" =>
       UNCHANGED <<current_focus, current_text_cache, timers, overlay>>]_vars

C17_Witness ==
  /\ last.op = "lost elsewhere"
  /\ current_focus = "A"
  /\ overlay.visible
  /\ \E t \in BagToSet(timers) : t.st = "waiting"

\* C18: the session is written by the event handlers alone: no step of a
\* run_llm thread (its read of the cache, its completion with a suggestion,
\* with none or with an exception) and no Timer callback assigns the tracked
\* control or the cached text.
C18_ThreadsLeaveSession ==
  [][(\/ last'.op = "complete"
      \/ \E r \in BagToSet(requests) : Starts(r) \/ Completes(r)
      \/ \E t \in BagToSet(timers) : CallbackOf(t)) =>
       UNCHANGED <<current_focus, current_text_cache>>]_vars

C18_Witness ==
  /\ last.op = "complete"
  /\ last.outcome = "empty"
  /\ current_focus = "A"
  /\ current_text_cache = <<"h">>

\* C19: the event path never waits for the backend: a handler that issues a
\* request returns with the request's thread merely created, and while
\* requests are in flight the focus, text-change and accept events can still
\* be handled (as long as the bounds on threads leave room for their effect).
C19_EventsNeverWait ==
  /\ last.op = "gained" =>
       \E r \in BagToSet(requests) : r.st = "spawned" /\ r.by = "focus"
  /\ (/\ \E r \in BagToSet(requests) : r.st = "inflight"
      /\ BagCardinality(requests) < MaxRequests
      /\ BagCardinality(timers) < MaxTimers) =>
       /\ ENABLED FocusEvent
       /\ ENABLED TextChangedEvent
       /\ overlay.visible => ENABLED AcceptClicked

C19_Witness ==
  /\ last.op = "gained"
  /\ \E r \in BagToSet(requests) : r.st = "inflight"

\* C20: accept_suggestion without a live session changes nothing and takes
\* neither path; when the direct write fails the fallback is invoked and the
\* cached text stays; the cached text changes only when the direct write
\* reported success.
C20_AcceptFrame ==
  [][last'.op = "accept" =>
       /\ current_focus = None =>
            /\ ~last'.live
            /\ UNCHANGED <<current_focus, current_text_cache, fieldText>>
       /\ (last'.live /\ ~last'.wrote) =>
            /\ last'.pasted # None
            /\ UNCHANGED <<current_text_cache, fieldText>>
       /\ current_text_cache' # current_text_cache =>
            last'.live /\ last'.direct /\ last'.pasted = None]_vars

C20_Witness ==
  /\ last.op = "accept"
  /\ last.live
  /\ ~last.direct
  /\ last.pasted = <<"h">>
  /\ current_text_cache = <<>>

\* C21: within one focus session, whatever the order in which the requests
\* in flight complete, the suggestion left on the overlay once all of them
\* have completed is not that of an older request which sent a text that the
\* most recently issued request has superseded.
C21_LatestRequestWins ==
  [][\A r \in BagToSet(requests) :
       (Completes(r) /\ overlay'.visible /\ requests' = EmptyBag /\ ~r.old) =>
         ~r.stale]_vars

\* C22: accept_suggestion writes (or pastes) a suggestion only into the
\* control it was requested for: the suggestion on the overlay at an accept
\* click was computed from the text of the control that is tracked then.
C22_AcceptIntoRequestedField ==
  [][(last'.op = "accept" /\ last'.live) =>
       overlay.origin = current_focus]_vars
====
